---- MODULE Spec2Model ----
(***************************************************************************)
(* A model of the rag-agent evaluation script (src/main.py) and of the     *)
(* geolocation client tool (src/src/client_tools.py).                      *)
(*                                                                         *)
(* The script is a straight-line program: each top-level statement is one  *)
(* action, sequenced by pc.  Calls into third-party libraries (smolagents, *)
(* ragas, dotenv, geocoder) are modelled by their effect on the script's   *)
(* own variables, with the outcome (a return value, or a raised exception) *)
(* chosen nondeterministically.                                            *)
(***************************************************************************)
EXTENDS Integers, Sequences, FiniteSets, TLC

VARIABLES
    pc,                 \* position of the script: the next statement to run
    dotenv,             \* variables defined by the .env file
    environ,            \* os.environ (the names that are set)
    calls,              \* the calls the script has begun, in order
    error,              \* the uncaught exception that ended the script
    model,              \* main.py global `model`
    web_search_tool,    \* main.py global `web_search_tool`
    agent,              \* main.py global `agent`
    agent_steps,        \* agent.steps, as left by agent.run
    run_question,       \* the argument agent.run was called with
    agent_output,       \* main.py global `agent_output`
    contexts,           \* main.py global `contexts`
    eval_call,          \* arguments, dataset and metrics of evaluate_rag_output
    evaluation_results, \* main.py global `evaluation_results`
    stdout,             \* what the script printed
    tool_calls,         \* number of get_location invocations so far
    tool_query,         \* the query of the last get_location invocation
    provider,           \* what geocoder.ip('me') did in the last invocation
    tool_result         \* how the last get_location invocation ended

scriptVars == <<pc, dotenv, environ, calls, error, model, web_search_tool, agent,
                agent_steps, run_question, agent_output, contexts, eval_call,
                evaluation_results, stdout>>
toolVars == <<tool_calls, tool_query, provider, tool_result>>
vars == <<pc, dotenv, environ, calls, error, model, web_search_tool, agent,
          agent_steps, run_question, agent_output, contexts, eval_call,
          evaluation_results, stdout, tool_calls, tool_query, provider,
          tool_result>>

----------------------------------------------------------------------------
(* Bounds of the model *)

\* longest agent.steps list considered
MaxTrace == 2
\* number of get_location invocations considered
MaxCalls == 4

----------------------------------------------------------------------------
(* Values *)

\* Python's None, and a Python list of strings
None == [tag |-> "None", items |-> <<>>]
List(s) == [tag |-> "list", items |-> s]

Unset == [tag |-> "unset", items |-> <<>>]
NoError == [type |-> "none", at |-> "none", msg |-> ""]

KEY == "OPENAI_API_KEY"
OtherVar == "HOME"

question == "Provide a historical review of NVIDIA revenue from 2020 until now."

KeyErrorMsg ==
    "OPENAI_API_KEY environment variable is not set. Please add it to your .env file."

\* answers agent.run may return
Answers == {"NVIDIA revenue grew from $10.9B to $60.9B.", ""}

\* texts a step of the agent may hold as its output
Snippets == {"FY2024 revenue: $60.9 billion"}

\* a step of agent.steps: without an `output` attribute, with a non-string
\* output, with a string output, or one whose `output` raises when read
StepNoOutput == [has |-> FALSE, isStr |-> FALSE, raises |-> FALSE, output |-> ""]
StepNonStr == [has |-> TRUE, isStr |-> FALSE, raises |-> FALSE, output |-> ""]
StepStr(s) == [has |-> TRUE, isStr |-> TRUE, raises |-> FALSE, output |-> s]
StepRaises == [has |-> FALSE, isStr |-> FALSE, raises |-> TRUE, output |-> ""]
Steps == {StepNoOutput, StepNonStr, StepRaises} \cup {StepStr(s) : s \in Snippets}

SeqsUpTo(S, n) == UNION {[1..k -> S] : k \in 0..n}

\* agent.steps after a run: not readable at all, or a list of steps
Unreadable == [readable |-> FALSE, steps |-> <<>>]
Traces == {Unreadable} \cup {[readable |-> TRUE, steps |-> t] : t \in SeqsUpTo(Steps, MaxTrace)}

\* metric scores ragas reports
Scores == {0, 1}

----------------------------------------------------------------------------
(* src/main.py: pure parts *)

\* load_dotenv(): variables of the .env file are added to os.environ
\* (override=False: a variable already set keeps its value)
load_dotenv(env, file) == env \cup file

\* [step.output for step in agent.steps
\*    if hasattr(step, 'output') and isinstance(step.output, str)]
IsStrOutput(step) == step.has /\ step.isStr
RECURSIVE StepOutputs(_)
StepOutputs(steps) ==
    IF steps = <<>> THEN <<>>
    ELSE IF IsStrOutput(Head(steps))
         THEN <<Head(steps).output>> \o StepOutputs(Tail(steps))
         ELSE StepOutputs(Tail(steps))

\* whether evaluating the comprehension raises: agent.steps cannot be read,
\* or reading some step's output raises
ExtractionRaises(trace) ==
    \/ ~trace.readable
    \/ \E i \in 1..Len(trace.steps) : trace.steps[i].raises

\* try: contexts = [...]   except: contexts = None
ExtractContexts(trace) ==
    IF ExtractionRaises(trace) THEN None ELSE List(StepOutputs(trace.steps))

\* evaluate_rag_output without the `contexts is None` branch
evaluate_rag_output_AllMetrics(q, a, ctx) ==
    [data |-> [question |-> <<q>>, answer |-> <<a>>, contexts |-> <<ctx.items>>],
     metrics |-> <<"faithfulness", "answer_relevancy", "context_recall">>]

\* evaluate_rag_output whose second branch leaves context_recall out
evaluate_rag_output_NoRecall(q, a, ctx) ==
    IF ctx = None
    THEN [data |-> [question |-> <<q>>, answer |-> <<a>>],
          metrics |-> <<"answer_relevancy">>]
    ELSE [data |-> [question |-> <<q>>, answer |-> <<a>>, contexts |-> <<ctx.items>>],
          metrics |-> <<"faithfulness", "answer_relevancy">>]

\* evaluate_rag_output branching on `not contexts` (None or empty)
evaluate_rag_output_Falsy(q, a, ctx) ==
    IF ctx = None \/ ctx.items = <<>>
    THEN [data |-> [question |-> <<q>>, answer |-> <<a>>],
          metrics |-> <<"answer_relevancy">>]
    ELSE [data |-> [question |-> <<q>>, answer |-> <<a>>, contexts |-> <<ctx.items>>],
          metrics |-> <<"faithfulness", "answer_relevancy", "context_recall">>]

\* evaluate_rag_output up to its call of ragas.evaluate: the one-row data
\* frame and the metric list handed to evaluate
evaluate_rag_output(q, a, ctx) ==
    IF ctx = None
    THEN [data |-> [question |-> <<q>>, answer |-> <<a>>],
          metrics |-> <<"answer_relevancy">>]
    ELSE [data |-> [question |-> <<q>>, answer |-> <<a>>, contexts |-> <<ctx.items>>],
          metrics |-> <<"faithfulness", "answer_relevancy", "context_recall">>]

\* the names of a metric list
MetricNames(metrics) == {metrics[i] : i \in 1..Len(metrics)}

----------------------------------------------------------------------------
(* src/main.py: the script, statement by statement *)

Raise(type, at, msg) ==
    /\ pc' = "raised"
    /\ error' = [type |-> type, at |-> at, msg |-> msg]

\* the tool's variables are not touched by the script
ToolInit ==
    /\ tool_calls = 0
    /\ tool_query = ""
    /\ provider = [raised |-> FALSE, ok |-> FALSE, city |-> "", state |-> "",
                   country |-> "", exc |-> "", msg |-> ""]
    /\ tool_result = [kind |-> "none", value |-> "", exc |-> ""]

ScriptInit ==
    /\ pc = "load_dotenv"
    /\ calls = <<>>
    /\ error = NoError
    /\ model = [set |-> FALSE]
    /\ web_search_tool = [set |-> FALSE]
    /\ agent = [set |-> FALSE]
    /\ agent_steps = Unreadable
    /\ run_question = ""
    /\ agent_output = ""
    /\ contexts = Unset
    /\ eval_call = [called |-> 0]
    /\ evaluation_results = [set |-> FALSE]
    /\ stdout = <<>>

Init ==
    /\ dotenv \in SUBSET {KEY, OtherVar}
    /\ environ \in SUBSET {KEY, OtherVar}
    /\ ScriptInit
    /\ ToolInit

\* line 18: load_dotenv()
LoadDotenv ==
    /\ pc = "load_dotenv"
    /\ calls' = Append(calls, "load_dotenv")
    /\ environ' = load_dotenv(environ, dotenv)
    /\ pc' = "check"
    /\ UNCHANGED <<dotenv, error, model, web_search_tool, agent, agent_steps,
                   run_question, agent_output, contexts, eval_call,
                   evaluation_results, stdout, toolVars>>

\* CheckCredential without the test: the script goes on whatever os.environ holds
CheckCredential_Skipped ==
    /\ pc = "check"
    /\ pc' = "model"
    /\ UNCHANGED <<dotenv, environ, calls, error, model, web_search_tool, agent,
                   agent_steps, run_question, agent_output, contexts, eval_call,
                   evaluation_results, stdout, toolVars>>

\* lines 21-22: if "OPENAI_API_KEY" not in os.environ: raise ValueError(...)
CheckCredential ==
    /\ pc = "check"
    /\ IF KEY \notin environ
       THEN Raise("ValueError", "check", KeyErrorMsg)
       ELSE pc' = "model" /\ UNCHANGED error
    /\ UNCHANGED <<dotenv, environ, calls, model, web_search_tool, agent,
                   agent_steps, run_question, agent_output, contexts, eval_call,
                   evaluation_results, stdout, toolVars>>

\* lines 27-32: model = LiteLLMModel(...)
ConstructModel ==
    /\ pc = "model"
    /\ calls' = Append(calls, "LiteLLMModel")
    /\ \/ /\ model' = [set |-> TRUE, model_id |-> "openai/qwen2.5:7b",
                       api_base |-> "http://localhost:8080/v1",
                       api_key |-> "YOUR_API_KEY", num_ctx |-> 8096]
          /\ pc' = "tool"
          /\ UNCHANGED error
       \/ /\ Raise("Exception", "LiteLLMModel", "")
          /\ UNCHANGED model
    /\ UNCHANGED <<dotenv, environ, web_search_tool, agent, agent_steps,
                   run_question, agent_output, contexts, eval_call,
                   evaluation_results, stdout, toolVars>>

\* line 35: web_search_tool = DuckDuckGoSearchTool()
ConstructTool ==
    /\ pc = "tool"
    /\ calls' = Append(calls, "DuckDuckGoSearchTool")
    /\ \/ /\ web_search_tool' = [set |-> TRUE, name |-> "web_search"]
          /\ pc' = "agent"
          /\ UNCHANGED error
       \/ /\ Raise("Exception", "DuckDuckGoSearchTool", "")
          /\ UNCHANGED web_search_tool
    /\ UNCHANGED <<dotenv, environ, model, agent, agent_steps, run_question,
                   agent_output, contexts, eval_call, evaluation_results,
                   stdout, toolVars>>

\* lines 37-43: agent = CodeAgent(tools=[web_search_tool], model=model, ...)
ConstructAgent ==
    /\ pc = "agent"
    /\ calls' = Append(calls, "CodeAgent")
    /\ \/ /\ agent' = [set |-> TRUE, tools |-> <<web_search_tool>>, model |-> model,
                       planning_interval |-> 1, max_steps |-> 3,
                       verbosity_level |-> 2]
          /\ pc' = "visualize"
          /\ UNCHANGED error
       \/ /\ Raise("Exception", "CodeAgent", "")
          /\ UNCHANGED agent
    /\ UNCHANGED <<dotenv, environ, model, web_search_tool, agent_steps,
                   run_question, agent_output, contexts, eval_call,
                   evaluation_results, stdout, toolVars>>

\* line 89: agent.visualize()
Visualize ==
    /\ pc = "visualize"
    /\ calls' = Append(calls, "agent.visualize")
    /\ \/ pc' = "run" /\ UNCHANGED error
       \/ Raise("Exception", "agent.visualize", "")
    /\ UNCHANGED <<dotenv, environ, model, web_search_tool, agent, agent_steps,
                   run_question, agent_output, contexts, eval_call,
                   evaluation_results, stdout, toolVars>>

\* AgentRun inside a try/except that logs the failure and goes on with no answer
AgentRun_ErrorSwallowed ==
    /\ pc = "run"
    /\ calls' = Append(calls, "agent.run")
    /\ run_question' = question
    /\ \/ /\ \E a \in Answers, t \in Traces :
                /\ agent_output' = a
                /\ agent_steps' = t
          /\ UNCHANGED error
       \/ /\ error' = [type |-> "Exception", at |-> "agent.run", msg |-> ""]
          /\ UNCHANGED <<agent_output, agent_steps>>
    /\ pc' = "print_output"
    /\ UNCHANGED <<dotenv, environ, model, web_search_tool, agent, contexts,
                   eval_call, evaluation_results, stdout, toolVars>>

\* line 90: agent_output = agent.run(question)
\* The episode itself runs inside the agent library: it returns some answer
\* and leaves some step trace, or it raises.
AgentRun ==
    /\ pc = "run"
    /\ calls' = Append(calls, "agent.run")
    /\ run_question' = question
    /\ \/ /\ \E a \in Answers, t \in Traces :
                /\ agent_output' = a
                /\ agent_steps' = t
          /\ pc' = "print_output"
          /\ UNCHANGED error
       \/ /\ Raise("Exception", "agent.run", "")
          /\ UNCHANGED <<agent_output, agent_steps>>
    /\ UNCHANGED <<dotenv, environ, model, web_search_tool, agent, contexts,
                   eval_call, evaluation_results, stdout, toolVars>>

\* lines 92-93: print("Final output:"); print(agent_output)
PrintOutput ==
    /\ pc = "print_output"
    /\ stdout' = stdout \o <<"Final output:", agent_output>>
    /\ pc' = "extract"
    /\ UNCHANGED <<dotenv, environ, calls, error, model, web_search_tool, agent,
                   agent_steps, run_question, agent_output, contexts, eval_call,
                   evaluation_results, toolVars>>

\* lines 98-102: the try/except that reads agent.steps
ContextExtraction ==
    /\ pc = "extract"
    /\ calls' = Append(calls, "extract_contexts")
    /\ contexts' = ExtractContexts(agent_steps)
    /\ pc' = "evaluate"
    /\ UNCHANGED <<dotenv, environ, error, model, web_search_tool, agent,
                   agent_steps, run_question, agent_output, eval_call,
                   evaluation_results, stdout, toolVars>>

\* line 105: evaluation_results = evaluate_rag_output(question, agent_output, contexts)
\* ragas.evaluate scores each metric it is given, or raises.
Evaluate ==
    /\ pc = "evaluate"
    /\ calls' = Append(calls, "evaluate_rag_output")
    /\ LET e == evaluate_rag_output(question, agent_output, contexts) IN
       /\ eval_call' = [called |-> eval_call.called + 1,
                        question |-> question, answer |-> agent_output,
                        contexts |-> contexts,
                        data |-> e.data, metrics |-> e.metrics]
       /\ \/ /\ \E r \in [MetricNames(e.metrics) -> Scores] :
                   evaluation_results' = [set |-> TRUE, scores |-> r]
             /\ pc' = "print_results"
             /\ UNCHANGED error
          \/ /\ Raise("Exception", "evaluate", "")
             /\ UNCHANGED evaluation_results
    /\ UNCHANGED <<dotenv, environ, model, web_search_tool, agent, agent_steps,
                   run_question, agent_output, contexts, stdout, toolVars>>

\* lines 106-107: print("\nEvaluation Results:"); print(evaluation_results)
PrintResults ==
    /\ pc = "print_results"
    /\ stdout' = stdout \o <<"Evaluation Results:", "evaluation_results">>
    /\ pc' = "done"
    /\ UNCHANGED <<dotenv, environ, calls, error, model, web_search_tool, agent,
                   agent_steps, run_question, agent_output, contexts, eval_call,
                   evaluation_results, toolVars>>

Next ==
    \/ LoadDotenv
    \/ CheckCredential
    \/ ConstructModel
    \/ ConstructTool
    \/ ConstructAgent
    \/ Visualize
    \/ AgentRun
    \/ PrintOutput
    \/ ContextExtraction
    \/ Evaluate
    \/ PrintResults

Spec == Init /\ [][Next]_vars

----------------------------------------------------------------------------
(* src/src/client_tools.py: get_location *)

\* queries the tool is invoked with (the default, and one from a user)
Queries == {"location", "where am I?"}

\* what the provider reports for the caller's address; a field the provider
\* cannot resolve is None, which the f-string formats as "None"
Cities == {"Singapore", "None"}
States == {"Central Singapore", "None"}
Countries == {"SG", "None"}

\* exception classes the provider call may raise, each with its base classes
ExcClasses == {"ConnectionError", "TimeoutError", "ValueError"}
Bases(c) ==
    CASE c = "ConnectionError" -> {"ConnectionError", "OSError", "Exception", "BaseException"}
      [] c = "TimeoutError" -> {"TimeoutError", "OSError", "Exception", "BaseException"}
      [] c = "ValueError" -> {"ValueError", "Exception", "BaseException"}
ExcMessages == {"", "Max retries exceeded"}

\* the outcomes of g = geocoder.ip('me'): a result that is ok, a result that
\* is not ok, or an exception
ProviderOk == {[raised |-> FALSE, ok |-> TRUE, city |-> c, state |-> s, country |-> k,
                exc |-> "", msg |-> ""] : c \in Cities, s \in States, k \in Countries}
ProviderNotOk == {[raised |-> FALSE, ok |-> FALSE, city |-> "None", state |-> "None",
                   country |-> "None", exc |-> "", msg |-> ""]}
ProviderRaises == {[raised |-> TRUE, ok |-> FALSE, city |-> "", state |-> "",
                    country |-> "", exc |-> c, msg |-> m] : c \in ExcClasses, m \in ExcMessages}
ProviderOutcomes == ProviderOk \cup ProviderNotOk \cup ProviderRaises

\* f"Your current location is: {g.city}, {g.state}, {g.country}"
LocationString(city, state, country) ==
    "Your current location is: " \o city \o ", " \o state \o ", " \o country

UnableString == "Unable to determine your location"

\* f"Error getting location: {str(e)}"
ErrorString(msg) == "Error getting location: " \o msg

Return(v) == [kind |-> "return", value |-> v, exc |-> ""]
Propagate(c) == [kind |-> "raise", value |-> "", exc |-> c]

\* an except clause that matches the raised class itself only
Handles_ExactClass(handler, c) == handler = c

\* `except Exception as e` handles an exception whose class derives from Exception
Handles(handler, c) == handler \in Bases(c)

\* get_location with the test of g.ok inverted
get_location_OkInverted(query, g) ==
    IF g.raised
    THEN IF Handles("Exception", g.exc)
         THEN Return(ErrorString(g.msg))
         ELSE Propagate(g.exc)
    ELSE IF ~g.ok
         THEN Return(LocationString(g.city, g.state, g.country))
         ELSE Return(UnableString)

\* get_location(query): how the call ends when the provider does g
get_location(query, g) ==
    IF g.raised
    THEN IF Handles("Exception", g.exc)
         THEN Return(ErrorString(g.msg))
         ELSE Propagate(g.exc)
    ELSE IF g.ok
         THEN Return(LocationString(g.city, g.state, g.country))
         ELSE Return(UnableString)

\* one invocation of the tool
InvokeGetLocation ==
    /\ tool_calls < MaxCalls
    /\ \E q \in Queries, g \in ProviderOutcomes :
          /\ tool_query' = q
          /\ provider' = g
          /\ tool_result' = get_location(q, g)
    /\ tool_calls' = tool_calls + 1
    /\ UNCHANGED scriptVars

InitTool ==
    /\ dotenv = {}
    /\ environ = {}
    /\ ScriptInit
    /\ ToolInit

NextTool == InvokeGetLocation

SpecTool == InitTool /\ [][NextTool]_vars

----------------------------------------------------------------------------
(* Properties of the script (checked under Spec) *)

CredentialChecked == pc \notin {"load_dotenv", "check"}

\* C1: when OPENAI_API_KEY is not in os.environ after load_dotenv, the script
\* has raised the descriptive ValueError at the check, and nothing after the
\* check has happened: no model, tool or agent was constructed, agent.run and
\* evaluate_rag_output were never called.
C1_MissingCredentialRaisesFirst ==
    (CredentialChecked /\ KEY \notin environ) =>
        /\ pc = "raised"
        /\ error = [type |-> "ValueError", at |-> "check", msg |-> KeyErrorMsg]
        /\ calls = <<"load_dotenv">>
        /\ ~model.set /\ ~web_search_tool.set /\ ~agent.set
        /\ eval_call.called = 0
        /\ ~evaluation_results.set

C1_Witness ==
    /\ pc = "raised"
    /\ error.at = "check"
    /\ KEY \notin environ

\* C3: when evaluate_rag_output is called with contexts = None, the data frame
\* has one row with exactly the columns question and answer, the metric list
\* is answer_relevancy alone, and a result has exactly that key.
C3_NoContextsOnlyAnswerRelevancy ==
    (eval_call.called > 0 /\ eval_call.contexts = None) =>
        /\ eval_call.metrics = <<"answer_relevancy">>
        /\ DOMAIN eval_call.data = {"question", "answer"}
        /\ eval_call.data.question = <<eval_call.question>>
        /\ eval_call.data.answer = <<eval_call.answer>>
        /\ evaluation_results.set =>
              DOMAIN evaluation_results.scores = {"answer_relevancy"}

C3_Witness ==
    /\ pc = "done"
    /\ eval_call.contexts = None
    /\ evaluation_results.set
    /\ DOMAIN evaluation_results.scores = {"answer_relevancy"}

\* C4: when evaluate_rag_output is called with a non-empty contexts list, the
\* data frame has one row with the columns question, answer and contexts (the
\* contexts cell holding the whole list), and a result has exactly the keys
\* faithfulness, answer_relevancy and context_recall.
C4_ContextsThreeMetrics ==
    (eval_call.called > 0 /\ eval_call.contexts.tag = "list"
        /\ eval_call.contexts.items # <<>>) =>
        /\ MetricNames(eval_call.metrics) =
              {"faithfulness", "answer_relevancy", "context_recall"}
        /\ Len(eval_call.metrics) = 3
        /\ DOMAIN eval_call.data = {"question", "answer", "contexts"}
        /\ eval_call.data.question = <<eval_call.question>>
        /\ eval_call.data.answer = <<eval_call.answer>>
        /\ eval_call.data.contexts = <<eval_call.contexts.items>>
        /\ evaluation_results.set =>
              DOMAIN evaluation_results.scores =
                  {"faithfulness", "answer_relevancy", "context_recall"}

C4_Witness ==
    /\ pc = "done"
    /\ eval_call.contexts.tag = "list"
    /\ Len(eval_call.contexts.items) = 2
    /\ evaluation_results.set
    /\ Cardinality(DOMAIN evaluation_results.scores) = 3

\* the steps the claim orders, and the calls of the script that are among them
OrderedSteps ==
    <<"LiteLLMModel", "DuckDuckGoSearchTool", "CodeAgent", "agent.run",
      "extract_contexts", "evaluate_rag_output">>
IsOrderedStep(c) == \E i \in 1..Len(OrderedSteps) : OrderedSteps[i] = c
IsPrefix(s, t) == Len(s) <= Len(t) /\ \A i \in 1..Len(s) : s[i] = t[i]
Called(c) == \E i \in 1..Len(calls) : calls[i] = c

\* C9: once the credential check has passed, the steps construct model,
\* construct tool, construct agent, agent.run, context extraction,
\* evaluate_rag_output happen in that order; evaluate_rag_output is called at
\* most once (exactly once in a run that completes), after agent.run returned,
\* with the question that was run and the answer the run returned; if
\* agent.run raised, evaluate_rag_output is never called.
C9_RunThenEvaluateOnce ==
    /\ IsPrefix(SelectSeq(calls, IsOrderedStep), OrderedSteps)
    /\ eval_call.called <= 1
    /\ (eval_call.called > 0) <=> Called("evaluate_rag_output")
    /\ pc = "done" => eval_call.called = 1
    /\ eval_call.called > 0 =>
          /\ Called("agent.run")
          /\ error.at # "agent.run"
          /\ eval_call.question = run_question
          /\ eval_call.answer = agent_output
    /\ error.at = "agent.run" => eval_call.called = 0

C9_Witness ==
    /\ pc = "done"
    /\ eval_call.called = 1
    /\ eval_call.answer = "NVIDIA revenue grew from $10.9B to $60.9B."
    /\ SelectSeq(calls, IsOrderedStep) = OrderedSteps

\* C10: after context extraction, contexts is None exactly when reading the
\* step trace raised; a readable trace with no string output gives the empty
\* list, and evaluate_rag_output then takes the three-metric branch with a
\* contexts column holding that empty list.
TraceReadRaised ==
    \/ ~agent_steps.readable
    \/ \E i \in 1..Len(agent_steps.steps) : agent_steps.steps[i].raises
NoStringOutput ==
    \A i \in 1..Len(agent_steps.steps) :
        ~(agent_steps.steps[i].has /\ agent_steps.steps[i].isStr)

C10_EmptyContextsTakeThreeMetricBranch ==
    contexts # Unset =>
        /\ (contexts = None) <=> TraceReadRaised
        /\ (~TraceReadRaised /\ NoStringOutput) => contexts = List(<<>>)
        /\ (eval_call.called > 0 /\ contexts = List(<<>>)) =>
              /\ eval_call.metrics =
                    <<"faithfulness", "answer_relevancy", "context_recall">>
              /\ DOMAIN eval_call.data = {"question", "answer", "contexts"}
              /\ eval_call.data.contexts = << <<>> >>

C10_Witness ==
    /\ pc = "done"
    /\ agent_steps.readable
    /\ Len(agent_steps.steps) = 2
    /\ contexts = List(<<>>)
    /\ DOMAIN evaluation_results.scores =
          {"faithfulness", "answer_relevancy", "context_recall"}

----------------------------------------------------------------------------
(* Properties of get_location (checked under SpecTool) *)

Invoked == tool_calls > 0

LocationStrings ==
    {LocationString(c, s, k) : c \in Cities, s \in States, k \in Countries}
ErrorStrings == {ErrorString(m) : m \in ExcMessages}

\* C2: an invocation of get_location in which the provider call raised ended
\* by returning a string; the exception did not reach the caller.
C2_ProviderExceptionReturnsString ==
    (Invoked /\ provider.raised) =>
        /\ tool_result.kind = "return"
        /\ tool_result.value \in STRING

C2_Witness ==
    /\ Invoked
    /\ provider.raised
    /\ provider.exc = "ConnectionError"
    /\ tool_result.kind = "return"

\* C8: get_location returns the location string (of the provider's city, state
\* and country) exactly when the provider call returned and reported ok, the
\* "Unable to determine your location" string exactly when it returned and
\* reported not ok, and an "Error getting location: ..." string (with the
\* exception's message) exactly when it raised.
C8_OneResultPerProviderOutcome ==
    Invoked =>
        /\ tool_result.kind = "return"
        /\ (tool_result.value \in LocationStrings) <=> (~provider.raised /\ provider.ok)
        /\ (tool_result.value = UnableString) <=> (~provider.raised /\ ~provider.ok)
        /\ (tool_result.value \in ErrorStrings) <=> provider.raised
        /\ (~provider.raised /\ provider.ok) =>
              tool_result.value =
                  LocationString(provider.city, provider.state, provider.country)
        /\ provider.raised => tool_result.value = ErrorString(provider.msg)

C8_Witness ==
    /\ Invoked
    /\ provider.ok
    /\ tool_result.value = "Your current location is: Singapore, None, SG"

====
